---- MODULE Spec2Model ----
(***************************************************************************)
(* Model of src/interact_mcp.py: a harness that spawns a child process     *)
(* speaking line-delimited JSON-RPC on its standard streams, drains the    *)
(* child's stderr on a background thread, and drives the conversation      *)
(* handshake -> initialize -> list devices -> screenshot, followed by the  *)
(* cleanup of main's finally block.                                        *)
(*                                                                         *)
(* The child and the operating system are the environment: the child may   *)
(* write any line at any time, write part of a line and stall, close its   *)
(* stdout, exit, or ignore a termination request.                          *)
(***************************************************************************)
EXTENDS Integers, Sequences, FiniteSets

VARIABLES
    pc,         \* where main() is: start, send, select, readline, finally, wait, join, done
    phase,      \* which step of the conversation: handshake, init, list, shot
    child,      \* the child process: notspawned, running, exited
    stdoutOpen, \* the child still holds the write end of its stdout
    pipe,       \* unread content of the OS pipe behind proc.stdout
    rbuf,       \* content already pulled into the BufferedReader of proc.stdout
    written,    \* what send_message handed to proc.stdin.write, in order
    hsExit,     \* how the handshake loop was left: none, server_info, timeout
    initResp,   \* init_response, as far as main() looks at it (see Seen)
    listResp,   \* what read_message returned for list_devices_response
    shotResp,   \* what read_message returned for screenshot_response
    device_id,  \* the id main() took from the device list, "" before that
    file,       \* screenshot.png: absent, empty (opened, nothing written) or its bytes
    caught,     \* the exception caught by main's except clause, or none
    uncaught,   \* the exception that left main(), or none
    exitCode,   \* exit status of the interpreter, -1 while running
    shutdowns,  \* how many times the finally block was entered
    termSent,   \* server_process.terminate() signalled the child
    joined,     \* stderr_thread.join(timeout=2) was called
    thread      \* the stderr thread: notstarted, running, finished

vars == <<pc, phase, child, stdoutOpen, pipe, rbuf, written, hsExit, initResp,
          listResp, shotResp, device_id, file, caught, uncaught, exitCode, shutdowns,
          termSent, joined, thread>>

\* Bounds of the model.
MaxPipe == 2      \* lines the child may have written ahead of the harness

----------------------------------------------------------------------------
(* Characters of the line terminator. *)
LF == "LF"
BACKSLASH == "BACKSLASH"
LetterN == "n"

(* JSON values the child can put on a line.  Presence of a key is a flag,  *)
(* so that every 'in' test and every subscript of main() can be evaluated. *)
Descriptor(hasId, id) == [hasId |-> hasId, id |-> id]

Text(isJson, hasDevices, devices) ==
    [isJson |-> isJson, hasDevices |-> hasDevices, devices |-> devices]

NoText == Text(FALSE, FALSE, <<>>)

Entry(hasText, text, hasData, data) ==
    [hasText |-> hasText, text |-> text, hasData |-> hasData, data |-> data]

Msg(method, hasId, hasError, hasResult, hasContent, content) ==
    [method |-> method, hasId |-> hasId, hasError |-> hasError,
     hasResult |-> hasResult, hasContent |-> hasContent, content |-> content]

DevicesMsg(devices) ==
    Msg("absent", TRUE, FALSE, TRUE, TRUE,
        <<Entry(TRUE, Text(TRUE, TRUE, devices), FALSE, "")>>)

ServerInfo == Msg("server_info", FALSE, FALSE, FALSE, FALSE, <<>>)
Notification == Msg("log", FALSE, FALSE, FALSE, FALSE, <<>>)
ErrorResp == Msg("absent", TRUE, TRUE, FALSE, FALSE, <<>>)
PlainResp == Msg("absent", TRUE, FALSE, TRUE, FALSE, <<>>)
EmptyContent == Msg("absent", TRUE, FALSE, TRUE, TRUE, <<>>)
Dev1 == Descriptor(TRUE, "dev-1")
Dev2 == Descriptor(TRUE, "dev-2")
NoIdDev == Descriptor(FALSE, "")
TextNotJson ==
    Msg("absent", TRUE, FALSE, TRUE, TRUE,
        <<Entry(TRUE, NoText, FALSE, "")>>)
TextNoDevices ==
    Msg("absent", TRUE, FALSE, TRUE, TRUE,
        <<Entry(TRUE, Text(TRUE, FALSE, <<>>), FALSE, "")>>)
ImageResp(data) ==
    Msg("absent", TRUE, FALSE, TRUE, TRUE, <<Entry(FALSE, NoText, TRUE, data)>>)

GoodB64 == "aGk="
BadB64 == "aGk"

Messages ==
    {ServerInfo, Notification, ErrorResp, PlainResp, EmptyContent,
     DevicesMsg(<<>>), DevicesMsg(<<Dev1, Dev2>>),
     DevicesMsg(<<NoIdDev>>), TextNotJson, TextNoDevices,
     ImageResp(GoodB64), ImageResp(BadB64)}

(* What the child writes to stdout: a complete line holding a JSON value,  *)
(* a complete line that is not JSON, or bytes with no newline yet.         *)
Line(m) == [complete |-> TRUE, json |-> TRUE, msg |-> m]
Garbage == [complete |-> TRUE, json |-> FALSE, msg |-> Notification]
Partial == [complete |-> FALSE, json |-> FALSE, msg |-> Notification]

Lines == {Line(m) : m \in Messages} \cup {Garbage}

(* Values of a response variable of main(). *)
Unset == [kind |-> "unset", msg |-> Notification]
None == [kind |-> "none", msg |-> Notification]
Got(m) == [kind |-> "msg", msg |-> m]

(* init_response: main() only tests whether it has the key error; of the   *)
(* value read_message returned the model keeps that, whether it is a       *)
(* message at all, and whether it carries an id.                           *)
Seen(r) == [kind |-> r.kind, hasId |-> r.msg.hasId, hasError |-> r.msg.hasError]

----------------------------------------------------------------------------
(* The three requests of main(). *)
Request(id, method, tool, device) ==
    [id |-> id, method |-> method, tool |-> tool, device |-> device]

init_request == Request(0, "initialize", "", "")

(* Mutant: the id of the request copied from init_request is left at 0. *)
list_devices_request_id0 ==
    Request(0, "tool/call", "mobile_list_available_devices", "")

list_devices_request == Request(1, "tool/call", "mobile_list_available_devices", "")

screenshot_request(dev) ==
    Request(2, "tool/call", "mobile_take_screenshot", dev)

(* send_message: json.dumps(message) followed by the terminator the code   *)
(* appends, the Python literal '\\n': a backslash and the letter n.        *)
Terminator == <<BACKSLASH, LetterN>>

Encode(message) == [json |-> message, term |-> Terminator]

(* base64.b64decode of the strings the model uses. *)
B64Valid(s) == s = GoodB64

B64Decode(s) == IF s = GoodB64 THEN "hi" ELSE ""

----------------------------------------------------------------------------
Init ==
    /\ pc = "start"
    /\ phase = "handshake"
    /\ child = "notspawned"
    /\ stdoutOpen = FALSE
    /\ pipe = <<>>
    /\ rbuf = <<>>
    /\ written = <<>>
    /\ hsExit = "none"
    /\ initResp = Seen(Unset)
    /\ listResp = Unset
    /\ shotResp = Unset
    /\ device_id = ""
    /\ file = "absent"
    /\ caught = "none"
    /\ uncaught = "none"
    /\ exitCode = -1
    /\ shutdowns = 0
    /\ termSent = FALSE
    /\ joined = FALSE
    /\ thread = "notstarted"

----------------------------------------------------------------------------
(* The except clause of main(): the exception is printed and swallowed.    *)
Raise(e) ==
    /\ caught' = e
    /\ pc' = "finally"

(* main() reads proc.stdout inside the try block only: once it has left    *)
(* for the finally block, what the child has written and main() has not    *)
(* read is never looked at again, and the model forgets it.                *)
Unread(content) == IF pc' = "finally" THEN <<>> ELSE content

(* Popen and the start of the stderr thread.  A child that cannot be       *)
(* spawned leaves server_process = None.                                   *)
Start ==
    /\ pc = "start"
    /\ \/ /\ child' = "running"
          /\ stdoutOpen' = TRUE
          /\ thread' = "running"
          /\ pc' = "select"
          /\ UNCHANGED caught
       \/ /\ Raise("OSError")
          /\ UNCHANGED <<child, stdoutOpen, thread>>
    /\ UNCHANGED <<phase, pipe, rbuf, written, hsExit, initResp, listResp,
                   shotResp, device_id, file, uncaught, exitCode, shutdowns,
                   termSent, joined>>

(* The request main() sends in each phase. *)
RequestOf(ph, dev) ==
    CASE ph = "init" -> init_request
      [] ph = "list" -> list_devices_request
      [] OTHER -> screenshot_request(dev)

(* send_message: write and flush.  Writing to a child that has exited      *)
(* raises BrokenPipeError.                                                 *)
Send ==
    /\ pc = "send"
    /\ written' = Append(written, Encode(RequestOf(phase, device_id)))
    /\ IF child = "running"
         THEN pc' = "select" /\ UNCHANGED caught
         ELSE Raise("BrokenPipeError")
    /\ pipe' = Unread(pipe)
    /\ rbuf' = Unread(rbuf)
    /\ UNCHANGED <<phase, child, stdoutOpen, hsExit, initResp,
                   listResp, shotResp, device_id, file, uncaught, exitCode,
                   shutdowns, termSent, joined, thread>>

(* select.select([proc.stdout], [], [], timeout) returns the stream when   *)
(* the OS pipe holds bytes or is at end-of-file.                           *)
Readable == pipe # <<>> \/ ~stdoutOpen

SelectReady ==
    /\ pc = "select"
    /\ Readable
    /\ pc' = "readline"
    /\ UNCHANGED <<phase, child, stdoutOpen, pipe, rbuf, written, hsExit,
                   initResp, listResp, shotResp, device_id, file, caught,
                   uncaught, exitCode, shutdowns, termSent, joined, thread>>

(* Mutant: the fallback of the handshake, going on to the next request    *)
(* when the timeout elapses, is applied to the responses of initialize and *)
(* list devices too.                                                       *)
SelectTimeoutProceeds ==
    /\ pc = "select"
    /\ ~Readable
    /\ IF phase \in {"handshake", "init", "list"}
         THEN /\ hsExit' = IF phase = "handshake" THEN "timeout" ELSE hsExit
              /\ phase' = CASE phase = "handshake" -> "init"
                            [] phase = "init" -> "list"
                            [] OTHER -> "shot"
              /\ pc' = "send"
              /\ UNCHANGED caught
         ELSE /\ Raise("TimeoutError")
              /\ UNCHANGED <<hsExit, phase>>
    /\ rbuf' = Unread(rbuf)
    /\ UNCHANGED <<child, stdoutOpen, pipe, written, initResp, listResp,
                   shotResp, device_id, file, uncaught, exitCode, shutdowns,
                   termSent, joined, thread>>

(* The timeout of select elapses: TimeoutError.  The handshake loop        *)
(* catches it and breaks; elsewhere it reaches main's except clause.       *)
SelectTimeout ==
    /\ pc = "select"
    /\ ~Readable
    /\ IF phase = "handshake"
         THEN /\ hsExit' = "timeout"
              /\ phase' = "init"
              /\ pc' = "send"
              /\ UNCHANGED caught
         ELSE /\ Raise("TimeoutError")
              /\ UNCHANGED <<hsExit, phase>>
    /\ rbuf' = Unread(rbuf)
    /\ UNCHANGED <<child, stdoutOpen, pipe, written, initResp, listResp,
                   shotResp, device_id, file, uncaught, exitCode, shutdowns,
                   termSent, joined, thread>>

----------------------------------------------------------------------------
(* What main() does with the value read_message returned, phase by phase.  *)

(* Mutant: the method name is compared with a misspelt literal. *)
IsServerInfoMisspelt(r) == r.kind = "msg" /\ r.msg.method = "serverInfo"

(* Handshake: initial_message is truthy and its method is the string      *)
(* "server_info".                                                          *)
IsServerInfo(r) == r.kind = "msg" /\ r.msg.method = "server_info"

(* Mutant: the test for the error key is left out. *)
InitFailedNeverChecked(r) == FALSE

(* 'error' in init_response. *)
InitFailed(r) == r.msg.hasError

(* 'result' in response and 'content' in response['result']. *)
HasContent(r) == r.msg.hasResult /\ r.msg.hasContent

(* Mutant: the last device of the list is taken, not the first. *)
LastDevice(devices) == devices[Len(devices)]

(* devices_data['devices'][0]['id'] *)
FirstDevice(devices) == devices[1]

(* The exception lines 96-99 raise on a list-devices response that has     *)
(* content, or "none".                                                     *)
ListError(r) ==
    LET content == r.msg.content IN
    IF content = <<>> THEN "IndexError"
    ELSE IF ~content[1].hasText THEN "KeyError"
    ELSE IF ~content[1].text.isJson THEN "JSONDecodeError"
    ELSE IF ~content[1].text.hasDevices THEN "KeyError"
    ELSE IF content[1].text.devices = <<>> THEN "none"
    ELSE IF ~FirstDevice(content[1].text.devices).hasId THEN "KeyError"
    ELSE "none"

(* devices_data['devices'] of a response ListError accepts. *)
DevicesOf(r) == r.msg.content[1].text.devices

(* The exception lines 116-118 raise on a screenshot response that has     *)
(* content, or "none".                                                     *)
ShotError(r) ==
    LET content == r.msg.content IN
    IF content = <<>> THEN "IndexError"
    ELSE IF ~content[1].hasData THEN "KeyError"
    ELSE IF ~B64Valid(content[1].data) THEN "binascii.Error"
    ELSE "none"

(* screenshot.png after lines 116-118: open() truncates the file before    *)
(* b64decode is evaluated, so a decoding error leaves it empty.            *)
ShotFile(r) ==
    LET content == r.msg.content IN
    IF content = <<>> \/ ~content[1].hasData THEN file
    ELSE IF ~B64Valid(content[1].data) THEN "empty"
    ELSE B64Decode(content[1].data)

HandleHandshake(r) ==
    /\ IF IsServerInfo(r)
         THEN /\ hsExit' = "server_info"
              /\ phase' = "init"
              /\ pc' = "send"
         ELSE /\ pc' = "select"
              /\ UNCHANGED <<hsExit, phase>>
    /\ UNCHANGED <<initResp, listResp, shotResp, device_id, file, caught>>

HandleInit(r) ==
    /\ initResp' = Seen(r)
    /\ IF r.kind = "none" THEN Raise("TypeError") /\ UNCHANGED phase
       ELSE IF InitFailed(r) THEN Raise("RuntimeError") /\ UNCHANGED phase
       ELSE /\ phase' = "list"
            /\ pc' = "send"
            /\ UNCHANGED caught
    /\ UNCHANGED <<hsExit, listResp, shotResp, device_id, file>>

HandleList(r) ==
    /\ listResp' = r
    /\ IF r.kind = "none"
         THEN Raise("TypeError") /\ UNCHANGED <<phase, device_id>>
       ELSE IF ~HasContent(r)
         THEN pc' = "finally" /\ UNCHANGED <<phase, device_id, caught>>
       ELSE IF ListError(r) # "none"
         THEN Raise(ListError(r)) /\ UNCHANGED <<phase, device_id>>
       ELSE IF DevicesOf(r) = <<>>
         THEN pc' = "finally" /\ UNCHANGED <<phase, device_id, caught>>
       ELSE /\ device_id' = FirstDevice(DevicesOf(r)).id
            /\ phase' = "shot"
            /\ pc' = "send"
            /\ UNCHANGED caught
    /\ UNCHANGED <<hsExit, initResp, shotResp, file>>

HandleShot(r) ==
    /\ shotResp' = r
    /\ IF r.kind = "none"
         THEN Raise("TypeError") /\ UNCHANGED file
       ELSE IF ~HasContent(r)
         THEN pc' = "finally" /\ UNCHANGED <<file, caught>>
       ELSE /\ file' = ShotFile(r)
            /\ IF ShotError(r) # "none"
                 THEN Raise(ShotError(r))
                 ELSE pc' = "finally" /\ UNCHANGED caught
    /\ UNCHANGED <<hsExit, phase, initResp, listResp, device_id>>

Handle(r) ==
    CASE phase = "handshake" -> HandleHandshake(r)
      [] phase = "init" -> HandleInit(r)
      [] phase = "list" -> HandleList(r)
      [] OTHER -> HandleShot(r)

(* The rest of read_message once readline() has returned `line`:           *)
(* json.loads raises on a line that is not JSON, also during the           *)
(* handshake, whose loop catches TimeoutError only.                        *)
Deliver(line) ==
    IF line.complete /\ line.json
      THEN Handle(Got(line.msg))
      ELSE /\ Raise("JSONDecodeError")
           /\ UNCHANGED <<hsExit, phase, initResp, listResp, shotResp,
                          device_id, file>>

(* proc.stdout.readline() on the BufferedReader: a line already buffered   *)
(* is returned; otherwise one raw read pulls everything the pipe holds     *)
(* into the buffer; at end-of-file what is buffered is returned (b'' makes *)
(* read_message return None); with neither a newline nor end-of-file the   *)
(* call blocks.                                                            *)
Readline ==
    /\ pc = "readline"
    /\ \/ /\ rbuf # <<>> /\ Head(rbuf).complete
          /\ Deliver(Head(rbuf))
          /\ rbuf' = Unread(Tail(rbuf))
          /\ pipe' = Unread(pipe)
       \/ /\ rbuf = <<>> /\ pipe # <<>> /\ Head(pipe).complete
          /\ Deliver(Head(pipe))
          /\ rbuf' = Unread(Tail(pipe))
          /\ pipe' = <<>>
       \/ /\ rbuf = <<>> /\ pipe # <<>> /\ ~Head(pipe).complete
          /\ rbuf' = pipe
          /\ pipe' = <<>>
          /\ UNCHANGED <<pc, hsExit, phase, initResp, listResp, shotResp,
                         device_id, file, caught>>
       \/ /\ rbuf = <<>> /\ pipe = <<>> /\ ~stdoutOpen
          /\ Handle(None)
          /\ UNCHANGED <<rbuf, pipe>>
       \/ /\ rbuf # <<>> /\ ~Head(rbuf).complete /\ ~stdoutOpen
          /\ Deliver(Head(rbuf))
          /\ rbuf' = <<>>
          /\ UNCHANGED pipe
    /\ UNCHANGED <<child, stdoutOpen, written, uncaught, exitCode, shutdowns,
                   termSent, joined, thread>>

----------------------------------------------------------------------------
(* The finally block of main(). *)

(* Mutant: terminate() and wait() are called without asking poll() first. *)
FinallyWithoutPoll ==
    /\ pc = "finally"
    /\ shutdowns' = shutdowns + 1
    /\ IF child = "notspawned"
         THEN /\ pc' = "done"
              /\ exitCode' = 0
              /\ UNCHANGED termSent
         ELSE /\ termSent' = TRUE
              /\ pc' = "wait"
              /\ UNCHANGED exitCode
    /\ UNCHANGED <<phase, child, stdoutOpen, pipe, rbuf, written, hsExit,
                   initResp, listResp, shotResp, device_id, file, caught,
                   uncaught, joined, thread>>

(* if server_process: if server_process.poll() is None: terminate()        *)
Finally ==
    /\ pc = "finally"
    /\ shutdowns' = shutdowns + 1
    /\ IF child = "notspawned"
         THEN /\ pc' = "done"
              /\ exitCode' = 0
              /\ UNCHANGED termSent
         ELSE IF child = "running"
           THEN /\ termSent' = TRUE
                /\ pc' = "wait"
                /\ UNCHANGED exitCode
           ELSE /\ pc' = "join"
                /\ UNCHANGED <<termSent, exitCode>>
    /\ UNCHANGED <<phase, child, stdoutOpen, pipe, rbuf, written, hsExit,
                   initResp, listResp, shotResp, device_id, file, caught,
                   uncaught, joined, thread>>

(* server_process.wait(timeout=5) returns once the child has exited. *)
WaitReturns ==
    /\ pc = "wait"
    /\ child = "exited"
    /\ pc' = "join"
    /\ UNCHANGED <<phase, child, stdoutOpen, pipe, rbuf, written, hsExit,
                   initResp, listResp, shotResp, device_id, file, caught,
                   uncaught, exitCode, shutdowns, termSent, joined, thread>>

(* server_process.wait(timeout=5) raises TimeoutExpired while the child    *)
(* is still running; raised inside the finally block, it leaves main().    *)
WaitTimeout ==
    /\ pc = "wait"
    /\ child = "running"
    /\ uncaught' = "TimeoutExpired"
    /\ exitCode' = 1
    /\ pc' = "done"
    /\ UNCHANGED <<phase, child, stdoutOpen, pipe, rbuf, written, hsExit,
                   initResp, listResp, shotResp, device_id, file, caught,
                   shutdowns, termSent, joined, thread>>

(* stderr_thread.join(timeout=2) returns whether or not the thread has     *)
(* finished; main() returns and the interpreter exits with status 0.       *)
Join ==
    /\ pc = "join"
    /\ joined' = TRUE
    /\ exitCode' = 0
    /\ pc' = "done"
    /\ UNCHANGED <<phase, child, stdoutOpen, pipe, rbuf, written, hsExit,
                   initResp, listResp, shotResp, device_id, file, caught,
                   uncaught, shutdowns, termSent, thread>>

----------------------------------------------------------------------------
(* read_output, the target of the stderr thread. *)

(* Mutant: the try/except of read_output is missing and the failure of    *)
(* the loop is taken for a failure of the conversation.                    *)
ThreadLineFailurePropagates ==
    /\ thread = "running"
    /\ pc # "done"
    /\ child = "running"
    /\ \/ /\ thread' = "running"
          /\ UNCHANGED <<pc, caught>>
       \/ /\ thread' = "finished"
          /\ pc \notin {"finally", "wait", "join"}
          /\ Raise("UnicodeDecodeError")
    /\ UNCHANGED <<phase, child, stdoutOpen, pipe, rbuf, written, hsExit,
                   initResp, listResp, shotResp, device_id, file,
                   uncaught, exitCode, shutdowns, termSent, joined>>

(* One iteration of the loop, taken when the child writes a line to its    *)
(* stderr: the line is decoded and printed, or, its bytes not being UTF-8, *)
(* decode raises inside the try, the except clause prints and the thread   *)
(* ends.  The printed text is not part of the state.                       *)
ThreadLine ==
    /\ thread = "running"
    /\ pc # "done"
    /\ child = "running"
    /\ thread' \in {"running", "finished"}
    /\ UNCHANGED <<pc, phase, child, stdoutOpen, pipe, rbuf, written, hsExit,
                   initResp, listResp, shotResp, device_id, file, caught,
                   uncaught, exitCode, shutdowns, termSent, joined>>

(* readline returns b'' at end-of-file: iter() stops and the thread ends. *)
ThreadEOF ==
    /\ thread = "running"
    /\ pc # "done"
    /\ child = "exited"
    /\ thread' = "finished"
    /\ UNCHANGED <<pc, phase, child, stdoutOpen, pipe, rbuf, written, hsExit,
                   initResp, listResp, shotResp, device_id, file, caught,
                   uncaught, exitCode, shutdowns, termSent, joined>>

----------------------------------------------------------------------------
(* The child process, until the harness has exited.  What it writes to    *)
(* stdout after main() has left the try block is never read, and is left   *)
(* out.  A line the child writes in two parts counts as written when it is *)
(* complete; bytes with no newline are modelled where the child then       *)
(* stalls, closes the stream or exits.                                     *)

(* The last thing the child wrote to stdout has no newline yet. *)
MidLine ==
    \/ pipe # <<>> /\ ~pipe[Len(pipe)].complete
    \/ rbuf # <<>> /\ ~rbuf[Len(rbuf)].complete

ChildWrite ==
    /\ child = "running"
    /\ pc \in {"send", "select", "readline"}
    /\ stdoutOpen
    /\ ~MidLine
    /\ Len(pipe) + Len(rbuf) < MaxPipe
    /\ \E l \in Lines \cup {Partial} : pipe' = Append(pipe, l)
    /\ UNCHANGED <<pc, phase, child, stdoutOpen, rbuf, written, hsExit,
                   initResp, listResp, shotResp, device_id, file, caught,
                   uncaught, exitCode, shutdowns, termSent, joined, thread>>

ChildCloseStdout ==
    /\ child = "running"
    /\ pc # "done"
    /\ stdoutOpen
    /\ stdoutOpen' = FALSE
    /\ UNCHANGED <<pc, phase, child, pipe, rbuf, written, hsExit, initResp,
                   listResp, shotResp, device_id, file, caught, uncaught,
                   exitCode, shutdowns, termSent, joined, thread>>

(* The child exits, of its own accord or on the termination signal; its    *)
(* ends of the pipes close.                                                *)
ChildExit ==
    /\ child = "running"
    /\ pc # "done"
    /\ child' = "exited"
    /\ stdoutOpen' = FALSE
    /\ UNCHANGED <<pc, phase, pipe, rbuf, written, hsExit, initResp, listResp,
                   shotResp, device_id, file, caught, uncaught, exitCode,
                   shutdowns, termSent, joined, thread>>

----------------------------------------------------------------------------
Main ==
    \/ Start
    \/ Send
    \/ SelectReady
    \/ SelectTimeout
    \/ Readline
    \/ Finally
    \/ WaitReturns
    \/ WaitTimeout
    \/ Join

Thread ==
    \/ ThreadLine
    \/ ThreadEOF

Child ==
    \/ ChildWrite
    \/ ChildCloseStdout
    \/ ChildExit

Next == Main \/ Thread \/ Child

Spec == Init /\ [][Next]_vars

(* The interpreter keeps running main() and the thread, and time passes,   *)
(* so an enabled step of either is eventually taken.  Nothing is assumed   *)
(* of the child.                                                           *)
FairSpec == Spec /\ WF_vars(Main) /\ WF_vars(Thread)

----------------------------------------------------------------------------
(* Vocabulary of the properties. *)

ShutdownPcs == {"finally", "wait", "join", "done"}

InReceive == pc \in {"select", "readline"}

HandshakeLeft == phase # "handshake" \/ pc \in ShutdownPcs

Sent(i) == written[i].json

CaptureSent ==
    \E i \in 1..Len(written) : Sent(i).tool = "mobile_take_screenshot"

(* The list-devices response held a text entry that parsed to a mapping    *)
(* with a devices key.                                                     *)
ListParsed ==
    /\ listResp.kind = "msg"
    /\ HasContent(listResp)
    /\ listResp.msg.content # <<>>
    /\ listResp.msg.content[1].hasText
    /\ listResp.msg.content[1].text.isJson
    /\ listResp.msg.content[1].text.hasDevices

(* The states of section 4.1 in which a run ends well. *)
NoDevices == phase = "list" /\ caught = "none" /\ ListParsed /\ DevicesOf(listResp) = <<>>

ArtifactCaptured ==
    /\ phase = "shot"
    /\ caught = "none"
    /\ shotResp.kind = "msg"
    /\ HasContent(shotResp)

----------------------------------------------------------------------------
(* C1: every message send_message writes to the child's stdin is one line  *)
(* of JSON followed by exactly one newline character, the byte LF, and     *)
(* nothing else.                                                           *)
C1_EveryMessageEndsWithOneLF ==
    \A i \in 1..Len(written) : written[i].term = <<LF>>

(* C2: the handshake loop always terminates: whatever the child does, the  *)
(* harness eventually leaves the handshake, to send initialize or to shut  *)
(* down.                                                                   *)
C2_HandshakeTerminates == <>HandshakeLeft

(* C3: shutdown always ends with the child terminated, the diagnostics     *)
(* thread joined and main() returning without an uncaught exception, also  *)
(* when the child ignores the termination request.                         *)
C3_ShutdownTerminatesChild ==
    (pc = "done" /\ child # "notspawned") =>
        /\ child = "exited"
        /\ joined
        /\ uncaught = "none"

(* C4: the exit code is zero when the run ends in ArtifactCaptured or      *)
(* NoDevices and nonzero when it ends because of a failure caught at the   *)
(* top level.                                                              *)
C4_ExitCodeReflectsOutcome ==
    pc = "done" =>
        /\ (ArtifactCaptured \/ NoDevices) => exitCode = 0
        /\ caught # "none" => exitCode # 0

(* C5: a server notification, a message with no id, is never taken as the  *)
(* response to a request: every message main() uses as a response carries  *)
(* an id.                                                                  *)
C5_NotificationNotTakenAsResponse ==
    /\ initResp.kind = "msg" => initResp.hasId
    /\ listResp.kind = "msg" => listResp.msg.hasId
    /\ shotResp.kind = "msg" => shotResp.msg.hasId

(* C6: if the response received for the initialize request contains an     *)
(* error key, the run is aborted: initialize stays the only request ever   *)
(* sent, nothing is written to the output file, and control is in the      *)
(* finally block.                                                          *)
C6_InitErrorAborts ==
    (initResp.kind = "msg" /\ initResp.hasError) =>
        /\ Len(written) = 1
        /\ Sent(1) = init_request
        /\ file = "absent"
        /\ caught = "RuntimeError"
        /\ pc \in ShutdownPcs

C6_Witness ==
    /\ initResp.kind = "msg"
    /\ initResp.hasError
    /\ pc = "done"

(* A list of device descriptors in the sense of section 3 of the spec:     *)
(* every entry has an id.                                                  *)
IsDeviceList(devices) == \A i \in 1..Len(devices) : devices[i].hasId

(* C7: a capture request is sent if and only if the parsed device list of  *)
(* the list-devices response is non-empty, and it names the id of the      *)
(* first device of that list; when the list is empty the run ends with no  *)
(* capture request, no file written and no error raised by the step.       *)
C7_CaptureIffDevices ==
    /\ CaptureSent =>
          /\ ListParsed
          /\ DevicesOf(listResp) # <<>>
          /\ Len(written) = 3
          /\ Sent(3) = screenshot_request(DevicesOf(listResp)[1].id)
    /\ (pc \in ShutdownPcs /\ ListParsed /\ IsDeviceList(DevicesOf(listResp))
          /\ DevicesOf(listResp) # <<>>) => CaptureSent
    /\ (ListParsed /\ DevicesOf(listResp) = <<>>) =>
          /\ ~CaptureSent
          /\ file = "absent"
          /\ caught = "none"
          /\ pc \in ShutdownPcs

C7_Witness ==
    /\ ListParsed
    /\ DevicesOf(listResp) = <<Dev1, Dev2>>
    /\ Len(written) = 3
    /\ Sent(3).device = "dev-1"
    /\ pc = "done"

(* The line the next readline() of main() returns, if one is there. *)
NextLineIs(l) ==
    IF rbuf # <<>> THEN Head(rbuf) = l ELSE pipe # <<>> /\ Head(pipe) = l

(* A Receive of the handshake that returns server_info takes main()       *)
(* straight to sending initialize.                                         *)
ServerInfoWins ==
    (phase = "handshake" /\ pc = "readline" /\ pc' # "readline"
        /\ NextLineIs(Line(ServerInfo))) =>
    (phase' = "init" /\ pc' = "send" /\ hsExit' = "server_info")

(* A Receive of the handshake on which the timeout elapses does the same. *)
TimeoutWins ==
    (phase = "handshake" /\ pc = "select" /\ pc' # "select" /\ ~Readable) =>
    (phase' = "init" /\ pc' = "send" /\ hsExit' = "timeout")

(* The send that follows the handshake is the first, and of initialize. *)
InitializeFirst ==
    (phase = "init" /\ pc = "send" /\ pc' # "send") =>
    (written = <<>> /\ Len(written') = 1 /\ written'[1].json = init_request)

(* C8: the handshake resolves by whichever comes first: a Receive that     *)
(* returns server_info takes the harness straight to sending initialize,   *)
(* with no timeout in between; a Receive on which the timeout elapses does *)
(* the same; and initialize is the first request sent, sent exactly once.  *)
C8_HandshakeRace ==
    /\ [][ServerInfoWins /\ TimeoutWins /\ InitializeFirst]_vars
    /\ [](\A i \in 1..Len(written) : Sent(i) = init_request <=> i = 1)

C8_Witness ==
    /\ hsExit = "server_info"
    /\ Len(written) = 1
    /\ Sent(1) = init_request
    /\ pc = "select"

(* Once main() is in the finally block it stays there, and nothing more   *)
(* is sent, written to the file or caught.                                 *)
ShutdownIsLast ==
    pc \in ShutdownPcs =>
    (pc' \in ShutdownPcs /\ written' = written /\ file' = file /\ caught' = caught)

(* The finally block on a child that has already exited. *)
ShutdownOfExitedChild ==
    (pc = "finally" /\ child = "exited" /\ pc' # pc) =>
    (~termSent' /\ uncaught' = "none" /\ pc' = "join")

(* C9: on every path the finally block runs exactly once and is the last   *)
(* thing that happens: once main() is in it, and once an exception has     *)
(* been caught, no request is sent and no file written; on a child that    *)
(* has already exited it requests no termination and does not fail.        *)
C9_ShutdownOnceAndLast ==
    /\ [](shutdowns = IF pc \in {"wait", "join", "done"} THEN 1 ELSE 0)
    /\ [](caught # "none" => pc \in ShutdownPcs)
    /\ [][ShutdownIsLast /\ ShutdownOfExitedChild]_vars
    /\ []((pc = "done" /\ ~termSent) => uncaught = "none")

C9_Witness ==
    /\ pc = "done"
    /\ shutdowns = 1
    /\ caught = "TimeoutError"
    /\ child = "exited"
    /\ ~termSent

(* C10: read_message never blocks indefinitely: while main() is inside it, *)
(* it can always take a step (return a message, return None, or raise      *)
(* TimeoutError) without the child doing anything more.                    *)
C10_ReceiveNeverBlocks == InReceive => ENABLED Main

(* The fixed sequence of requests of a run that captures from device d. *)
Script(d) == <<init_request, list_devices_request, screenshot_request(d)>>

(* C11: the ids of the requests sent during one run are integers that      *)
(* strictly increase in send order, and the requests sent are a prefix of  *)
(* the sequence initialize, list devices, screenshot: none is sent twice   *)
(* or out of order.                                                        *)
C11_IdsIncreaseAndPrefix ==
    /\ \A i \in 1..Len(written) : Sent(i).id \in Nat
    /\ \A i, j \in 1..Len(written) : i < j => Sent(i).id < Sent(j).id
    /\ Len(written) <= 3
    /\ \A i \in 1..Len(written) : Sent(i) = Script(device_id)[i]

C11_Witness ==
    /\ Len(written) = 3
    /\ Sent(1).id = 0
    /\ Sent(2).id = 1
    /\ Sent(3).id = 2
    /\ Sent(3).device = "dev-1"

(* How many messages read_message has returned to main() after the         *)
(* handshake: one for each response variable that holds a message.         *)
Received ==
    (IF initResp.kind = "msg" THEN 1 ELSE 0)
      + (IF listResp.kind = "msg" THEN 1 ELSE 0)
      + (IF shotResp.kind = "msg" THEN 1 ELSE 0)

(* A request is sent only when every request before it has been answered   *)
(* by a message.                                                           *)
SendsAfterResponse ==
    Len(written') > Len(written) => Received = Len(written)

(* C12: main() has at most one outstanding request: the number of requests *)
(* sent minus the number of messages received after the handshake is 0 or  *)
(* 1, and request k+1 is sent only after a Receive that followed request k *)
(* has returned a message.                                                 *)
C12_OneOutstandingRequest ==
    /\ [](Len(written) - Received \in {0, 1})
    /\ [][SendsAfterResponse]_vars

C12_Witness ==
    /\ Len(written) = 3
    /\ Received = 2
    /\ pc = "select"

(* A list-devices response that is not a result whose first content entry  *)
(* is a text parsing to a list of device descriptors.                      *)
MalformedList ==
    /\ listResp.kind = "msg"
    /\ IF ListParsed THEN ~IsDeviceList(DevicesOf(listResp)) ELSE TRUE

(* A capture response that is not a result whose first content entry holds *)
(* base64 data.                                                            *)
MalformedShot ==
    /\ shotResp.kind = "msg"
    /\ ~(/\ HasContent(shotResp)
         /\ shotResp.msg.content # <<>>
         /\ shotResp.msg.content[1].hasData
         /\ B64Valid(shotResp.msg.content[1].data))

(* C13: a list-devices or capture response whose expected fields are       *)
(* absent or malformed never crashes the harness: no capture request is    *)
(* sent on a malformed device list, no output file is written on a         *)
(* malformed capture response, and the run ends through the finally block. *)
C13_MalformedResponseDegrades ==
    /\ MalformedList => (~CaptureSent /\ pc \in ShutdownPcs)
    /\ MalformedShot => (file = "absent" /\ pc \in ShutdownPcs)

(* What main() and the child are made of: everything but the thread. *)
mainVars == <<pc, phase, child, stdoutOpen, pipe, rbuf, written, hsExit,
              initResp, listResp, shotResp, device_id, file, caught,
              uncaught, exitCode, shutdowns, termSent, joined>>

(* The end of the drain loop, by a failure or by end-of-stream, changes    *)
(* nothing main() has or reads.                                            *)
DrainEndsSilently ==
    (thread = "running" /\ thread' = "finished") => mainVars' = mainVars

UnreadLineExists ==
    \/ \E i \in 1..Len(rbuf) : rbuf[i].complete
    \/ \E i \in 1..Len(pipe) : pipe[i].complete

(* The step on which read_message raises TimeoutError. *)
TimeoutOnlyWhenNothingUnread ==
    (pc = "select" /\ pc' \notin {"select", "readline"}) => ~UnreadLineExists

(* C15: no message the child has written is hidden from read_message: it   *)
(* raises TimeoutError only when no complete unread line exists, in the OS *)
(* pipe or in the buffered reader around the child's stdout.               *)
C15_NoLineHiddenFromReceive == [][TimeoutOnlyWhenNothingUnread]_vars

====
